---- MODULE Spec2Model ----
(***************************************************************************)
(* Order lifecycle and fulfilment of the digital goods platform            *)
(* (src/main.py, src/schemas.py): the risk scorer, create_order and the    *)
(* payment webhook, over the order, payment, licensekey and digitalproduct *)
(* collections.                                                            *)
(***************************************************************************)
EXTENDS Integers, Sequences, FiniteSets, TLC

(***************************************************************************)
(* Python floats.  Every float the risk scorer handles is a multiple of    *)
(* 2^-56 below 2, so a float is the pair <<hi, lo>> standing for           *)
(* (hi * 2^28 + lo) * 2^-56, and an addition is the exact sum rounded to   *)
(* the nearest float of 53 significant bits, ties to even.                 *)
(***************************************************************************)
MantBits == 53

LimbBits == 28

Limb == 2 ^ LimbBits

\* Number of binary digits of n (0 for n = 0).
BitLen(n) == CHOOSE k \in 0..31 : (n < 2 ^ k) /\ (k = 0 \/ n >= 2 ^ (k - 1))

\* The literals of risk_score_from_request and create_order as doubles.
F_0_0 == <<0, 0>>
F_0_1 == <<26843545, 161061274>>
F_0_6 == <<161061273, 161061272>>
F_0_8 == <<214748364, 214748368>>
F_1_0 == <<268435456, 0>>

FLess(a, b) == a[1] < b[1] \/ (a[1] = b[1] /\ a[2] < b[2])

\* The clamp that keeps the larger of the two.
FMin_Larger(a, b) == IF FLess(b, a) THEN a ELSE b

FMin(a, b) == IF FLess(b, a) THEN b ELSE a

FMax(a, b) == IF FLess(a, b) THEN b ELSE a

\* Round the exact value <<hi, lo>> to 53 significant bits, ties to even.
FRound(hi, lo) ==
    LET bits == IF hi = 0 THEN BitLen(lo) ELSE LimbBits + BitLen(hi)
        drop == IF bits > MantBits THEN bits - MantBits ELSE 0
        q    == 2 ^ drop
        r    == lo % q
        base == lo - r
        up   == drop > 0 /\ (2 * r > q \/ (2 * r = q /\ (base \div q) % 2 = 1))
        lo2  == IF up THEN base + q ELSE base
    IN  IF lo2 >= Limb THEN <<hi + 1, lo2 - Limb>> ELSE <<hi, lo2>>

\* a + b on floats.
FAdd(a, b) ==
    LET lo == a[2] + b[2]
        hi == a[1] + b[1] + (lo \div Limb)
    IN  FRound(hi, lo % Limb)

(***************************************************************************)
(* Strings.  An email is the sequence of the pieces between its "@"s       *)
(* (email.split("@")): <<"bob", "example.com">> is bob@example.com and     *)
(* <<"nobody">> has no "@".                                                *)
(***************************************************************************)
Lower(s) ==
    CASE s = "MAILINATOR.COM" -> "mailinator.com"
      [] s = "Example.com" -> "example.com"
      [] OTHER -> s

high_risk_domains == {"mailinator.com", "tempmail.com", "10minutemail.com"}

accepted_currencies == {"USD", "EUR", "GBP", "JPY", "AUD", "CAD"}

\* email.split("@")[-1].lower() if "@" in email else ""
DomainOf(email) == IF Len(email) > 1 THEN Lower(email[Len(email)]) ELSE ""

\* Lines 60-67: the score for each outcome of the three rules (the domain is
\* denylisted, the currency is not accepted, the fingerprint is empty).
risk_scores ==
    [denylisted \in BOOLEAN, odd_currency \in BOOLEAN, no_device \in BOOLEAN |->
        LET s0 == F_0_1
            s1 == IF denylisted THEN FAdd(s0, F_0_6) ELSE s0
            s2 == IF odd_currency THEN FAdd(s1, F_0_1) ELSE s1
            s3 == IF no_device THEN FAdd(s2, F_0_1) ELSE s2
        IN  FMin(F_1_0, FMax(F_0_0, s3))]

risk_score_from_request(signal) ==
    LET domain == DomainOf(signal.email)
        denylisted == domain \in high_risk_domains
        odd_currency == signal.currency \notin accepted_currencies
        no_device == signal.device_fp = ""
    IN  risk_scores[denylisted, odd_currency, no_device]

\* "allow" if score < 0.6 else ("review" if score < 0.8 else "block")
ActionOf(score) ==
    IF FLess(score, F_0_6) THEN "allow"
    ELSE IF FLess(score, F_0_8) THEN "review" ELSE "block"

(***************************************************************************)
(* Values and documents.                                                   *)
(***************************************************************************)
\* Python's None, as a request or event field and as a missing default.
None == "<None>"

\* find_one's answer when no document matches (None), and Order.delivery
\* before fulfilment.
NoDoc == [none |-> TRUE]

\* mapping.get(key, default)
Get(mapping, key, default) == IF key \in DOMAIN mapping THEN mapping[key] ELSE default

\* a or b, on strings and None
Or(a, b) == IF a \in {None, ""} THEN b ELSE a

\* The mappings rs, and each of them with the optional key k set to a value of vs.
OptField(rs, k, vs) == rs \cup {(k :> v) @@ r : r \in rs, v \in vs}

\* ObjectId(s) raises for a string that is no 24-digit hexadecimal id.
IsObjectId(s) == s \notin {None, "", "not-an-id"}

(***************************************************************************)
(* Bounds of the model and the inputs it draws from.                       *)
(***************************************************************************)
MaxOrders == 2

MaxPayments == 2

\* The workers that handle webhook events in parallel.
Workers == {1, 2}

ProductIds == {"p1", "p2"}

\* The product the seed helper creates.
SeedProduct ==
    [seller_id |-> "s1", price |-> 29, currency |-> "USD",
     delivery_type |-> "license_key", file_url |-> None]

\* Valid DigitalProduct documents a seller may have stored.
ProductDocs ==
    {SeedProduct} \cup
    {[seller_id |-> "s1", price |-> 10, currency |-> "EUR", delivery_type |-> d[1], file_url |-> d[2]] :
        d \in {<<"download", "https://cdn/f.zip">>, <<"download", None>>,
               <<"api", None>>, <<"manual", None>>}}

Emails ==
    {<<"bob", "Example.com">>, <<"eve", "MAILINATOR.COM">>, <<"nobody">>,
     <<"a", "b", "tempmail.com">>}

RequestBodies ==
    OptField(OptField({[product_id |-> p, buyer_email |-> e] :
                          p \in ProductIds \cup {"p9", "not-an-id"}, e \in Emails},
                      "currency", {None, "XBT"}),
             "device_fp", {"fp-1"})

\* The requests the lifecycle specifications place orders with: an allowed and
\* a blocked buyer for each product, an unknown product, a malformed email.
SampleRequests ==
    {[product_id |-> p, buyer_email |-> <<"bob", "Example.com">>, device_fp |-> "fp-1"] :
        p \in ProductIds \cup {"p9"}}
    \cup {[product_id |-> p, buyer_email |-> <<"eve", "MAILINATOR.COM">>, currency |-> "XBT"] :
        p \in ProductIds}
    \cup {[product_id |-> "p1", buyer_email |-> <<"nobody">>]}

\* Event payloads: with or without an order_id, and with an amount or a
\* processor the Payment schema refuses.
EventData ==
    LET ids == OptField({<<>>}, "order_id",
                        {"not-an-id"} \cup {ToString(i) : i \in 1..(MaxOrders + 1)})
    IN  ids \cup {("amount" :> -5) @@ d : d \in ids} \cup {("processor" :> "wire") @@ d : d \in ids}

Events == [type : {"payment.succeeded", "payment.failed"}, data : EventData]

\* secrets.token_urlsafe(16): the n-th token the generator returns.  A token
\* is 128 random bits, and no two draws are taken to return the same one.
token_urlsafe(n) == <<"tok", n>>

\* str.upper()
Upper(s) == IF s[1] = "tok" THEN <<"TOK", s[2]>> ELSE s

VARIABLES digitalproduct, order, payment, licensekey, webhook, reply

vars == <<digitalproduct, order, payment, licensekey, webhook, reply>>

(***************************************************************************)
(* The document store.  A collection of inserted documents is a sequence;  *)
(* the _id of the i-th is ToString(i).                                     *)
(***************************************************************************)
\* create_document(collection, model): the collection after the insert.
Insert(coll, doc) == Append(coll, doc)

\* db[collection].find_one({"_id": ObjectId(id)}) on an inserted collection.
FindOne(coll, id) ==
    IF \E i \in DOMAIN coll : ToString(i) = id
    THEN LET i == CHOOSE j \in DOMAIN coll : ToString(j) = id
         IN  ("_id" :> id) @@ coll[i]
    ELSE NoDoc

\* db["digitalproduct"].find_one({"_id": ObjectId(id)})
FindProduct(id) ==
    IF id \in DOMAIN digitalproduct /\ digitalproduct[id] # NoDoc
    THEN ("_id" :> id) @@ digitalproduct[id]
    ELSE NoDoc

\* db[collection].update_one({"_id": ObjectId(id)}, {"$set": patch})
UpdateOne(coll, id, patch) ==
    [i \in DOMAIN coll |->
        IF ToString(i) = id
        THEN [k \in DOMAIN coll[i] |-> IF k \in DOMAIN patch THEN patch[k] ELSE coll[i][k]]
        ELSE coll[i]]

\* serialize_doc: "_id" becomes the string field "id".
serialize_doc(doc) ==
    IF doc = NoDoc THEN doc
    ELSE [k \in (DOMAIN doc \ {"_id"}) \cup {"id"} |-> IF k = "id" THEN doc["_id"] ELSE doc[k]]

(***************************************************************************)
(* Schemas (src/schemas.py): what a model's constructor accepts.           *)
(***************************************************************************)
\* EmailStr: one "@", with text on both sides.
IsEmailStr(email) == Len(email) = 2 /\ email[1] # "" /\ email[2] # ""

\* Order(...) validates.
OrderValid(o) ==
    /\ IsEmailStr(o.buyer_email)
    /\ o.amount >= 0
    /\ o.status \in {"pending", "paid", "refunded", "failed"}

\* Payment(...) validates.
PaymentValid(p) ==
    /\ p.processor \in {"card", "paypal", "crypto", "bank"}
    /\ p.amount >= 0
    /\ p.status \in {"initiated", "succeeded", "failed", "refunded"}

(***************************************************************************)
(* HTTP responses.                                                         *)
(***************************************************************************)
NoReply == [status_code |-> 0]

HTTPException(code, detail) == [status_code |-> code, detail |-> detail]

\* An exception no handler catches: the framework answers 500.
InternalServerError == HTTPException(500, "Internal Server Error")

Idle == [pc |-> "idle"]

Init ==
    /\ digitalproduct \in {[p \in ProductIds |-> IF p = "p1" THEN SeedProduct ELSE d] :
                              d \in (ProductDocs \ {SeedProduct}) \cup {NoDoc}}
    /\ order = <<>>
    /\ payment = <<>>
    /\ licensekey = <<>>
    /\ webhook = [w \in Workers |-> Idle]
    /\ reply = NoReply

(***************************************************************************)
(* POST /orders                                                            *)
(***************************************************************************)
\* CreateOrderRequest: the body with the model's defaults filled in.
CreateOrderRequest(raw) ==
    [product_id |-> raw.product_id, buyer_email |-> raw.buyer_email,
     currency |-> Get(raw, "currency", "USD"), device_fp |-> Get(raw, "device_fp", None)]

\* The lookup whose miss goes unnoticed.
ProductMissing_Never(product) == FALSE

\* Line 188: if not product
ProductMissing(product) == product = NoDoc

\* The status that fails every order the scorer does not allow.
StatusFor_AllowOnly(action) == IF action = "allow" THEN "pending" ELSE "failed"

\* Line 207: "pending" if action != "block" else "failed"
StatusFor(action) == IF action # "block" THEN "pending" ELSE "failed"

create_order(raw) ==
    LET body == CreateOrderRequest(raw)
        product == IF IsObjectId(body.product_id) THEN FindProduct(body.product_id) ELSE NoDoc
        prod == serialize_doc(product)
        amount == Get(prod, "price", 0)
        currency == Or(body.currency, Get(prod, "currency", "USD"))
        score == risk_score_from_request(
                    [email |-> body.buyer_email, currency |-> currency,
                     device_fp |-> Or(body.device_fp, "")])
        action == ActionOf(score)
        o == [seller_id |-> Get(prod, "seller_id", ""),
              product_id |-> Get(prod, "id", ""),
              buyer_email |-> body.buyer_email,
              amount |-> amount,
              currency |-> currency,
              status |-> StatusFor(action),
              delivery |-> NoDoc]
    IN  /\ Len(order) < MaxOrders
        /\ UNCHANGED <<digitalproduct, payment, licensekey, webhook>>
        /\ IF ProductMissing(product)
           THEN /\ reply' = HTTPException(404, "Product not found")
                /\ UNCHANGED order
           ELSE IF ~OrderValid(o)
           THEN /\ reply' = InternalServerError
                /\ UNCHANGED order
           ELSE /\ order' = Insert(order, o)
                /\ reply' = [status_code |-> 200,
                             order_id |-> ToString(Len(order) + 1),
                             status |-> o.status,
                             risk_score |-> score,
                             action |-> action]

CreateOrder == \E raw \in RequestBodies : create_order(raw)

(***************************************************************************)
(* POST /payments/webhook.  The handler is one step per storage operation: *)
(* each is atomic at the store, and handlers of parallel workers           *)
(* interleave between them.  Worker w keeps the handler's locals in        *)
(* webhook[w].                                                             *)
(***************************************************************************)
\* Handlers that have still to insert their Payment record: the model takes
\* up an event for an order only while fewer than MaxPayments are recorded or
\* on their way.
Unrecorded == {v \in Workers : webhook[v].pc \in {"find_product", "record_payment"}}

\* The handler that takes every event type for a succeeded payment.
Ignored_Never(event) == FALSE

\* Line 234: if evt_type != "payment.succeeded"
Ignored(event) == event.type # "payment.succeeded"

\* Line 242: if not order_id
OrderIdMissing(order_id) == order_id \in {None, ""}

\* The order lookup whose miss goes unnoticed.
OrderMissing_Never(order_doc) == FALSE

\* Line 248: if not order_doc
OrderMissing(order_doc) == order_doc = NoDoc

\* Lines 231-249: the event type, order_id and the order lookup.  The fields
\* seen_payments and seen_keys are history, not locals of the handler: the
\* numbers of Payment and LicenseKey records when the call began.
WebhookReceive(w, event) ==
    LET data == event.data
        order_id == Get(data, "order_id", None)
        order_doc == FindOne(order, order_id)
    IN  /\ webhook[w].pc = "idle"
        /\ UNCHANGED <<digitalproduct, order, payment, licensekey>>
        /\ IF Ignored(event)
           THEN /\ reply' = [status_code |-> 200, received |-> TRUE]
                /\ UNCHANGED webhook
           ELSE IF OrderIdMissing(order_id)
           THEN /\ reply' = HTTPException(400, "order_id missing")
                /\ UNCHANGED webhook
           ELSE IF ~IsObjectId(order_id)
           THEN /\ reply' = InternalServerError
                /\ UNCHANGED webhook
           ELSE IF OrderMissing(order_doc)
           THEN /\ reply' = HTTPException(404, "Order not found")
                /\ UNCHANGED webhook
           ELSE /\ Len(payment) + Cardinality(Unrecorded) < MaxPayments
                /\ webhook' = [webhook EXCEPT ![w] =
                                [pc |-> "find_product",
                                 order_id |-> order_id,
                                 amount |-> Get(data, "amount", 0),
                                 currency |-> Get(data, "currency", "USD"),
                                 processor |-> Get(data, "processor", "card"),
                                 order_doc |-> order_doc,
                                 seen_payments |-> Len(payment),
                                 seen_keys |-> Len(licensekey)]]
                /\ UNCHANGED reply

\* Lines 251-255: the order's product, or None.
WebhookFindProduct(w) ==
    LET l == webhook[w]
        product == IF Get(l.order_doc, "product_id", None) \notin {None, ""}
                   THEN FindProduct(l.order_doc.product_id)
                   ELSE NoDoc
    IN  /\ l.pc = "find_product"
        /\ webhook' = [webhook EXCEPT ![w] = ("pc" :> "record_payment") @@ ("product" :> product) @@ l]
        /\ UNCHANGED <<digitalproduct, order, payment, licensekey, reply>>

\* The handler that records a Payment only for an order still pending.
WebhookRecordPayment_PendingOnly(w) ==
    LET l == webhook[w]
        p == [order_id |-> l.order_id, processor |-> l.processor, amount |-> l.amount,
              currency |-> l.currency, status |-> "succeeded"]
    IN  /\ l.pc = "record_payment"
        /\ UNCHANGED <<digitalproduct, order, licensekey>>
        /\ IF ~PaymentValid(p)
           THEN /\ reply' = InternalServerError
                /\ webhook' = [webhook EXCEPT ![w] = Idle]
                /\ UNCHANGED payment
           ELSE /\ payment' = IF l.order_doc.status = "pending" THEN Insert(payment, p)
                              ELSE payment
                /\ webhook' = [webhook EXCEPT ![w] = ("pc" :> "fulfil") @@ l]
                /\ UNCHANGED reply

\* The handler that builds the Payment record and never inserts it.
WebhookRecordPayment_NoInsert(w) ==
    LET l == webhook[w]
        p == [order_id |-> l.order_id, processor |-> l.processor, amount |-> l.amount,
              currency |-> l.currency, status |-> "succeeded"]
    IN  /\ l.pc = "record_payment"
        /\ UNCHANGED <<digitalproduct, order, licensekey, payment>>
        /\ IF ~PaymentValid(p)
           THEN /\ reply' = InternalServerError
                /\ webhook' = [webhook EXCEPT ![w] = Idle]
           ELSE /\ webhook' = [webhook EXCEPT ![w] = ("pc" :> "fulfil") @@ l]
                /\ UNCHANGED reply

\* Lines 257-266: the Payment record.
WebhookRecordPayment(w) ==
    LET l == webhook[w]
        p == [order_id |-> l.order_id, processor |-> l.processor, amount |-> l.amount,
              currency |-> l.currency, status |-> "succeeded"]
    IN  /\ l.pc = "record_payment"
        /\ UNCHANGED <<digitalproduct, order, licensekey>>
        /\ IF ~PaymentValid(p)
           THEN /\ reply' = InternalServerError
                /\ webhook' = [webhook EXCEPT ![w] = Idle]
                /\ UNCHANGED payment
           ELSE /\ payment' = Insert(payment, p)
                /\ webhook' = [webhook EXCEPT ![w] = ("pc" :> "fulfil") @@ l]
                /\ UNCHANGED reply

\* The dispatch that takes every download product as a download, with the url
\* it has.
Delivery_DownloadWithoutUrl(product, token) ==
    IF product # NoDoc
    THEN LET prod == serialize_doc(product)
         IN  IF Get(prod, "delivery_type", None) = "license_key"
             THEN [type |-> "license_key", key |-> Upper(token)]
             ELSE IF Get(prod, "delivery_type", None) = "download"
             THEN IF Get(prod, "file_url", None) \notin {None, ""}
                  THEN [type |-> "download", url |-> prod.file_url]
                  ELSE [type |-> "download"]
             ELSE IF Get(prod, "delivery_type", None) = "api"
             THEN [type |-> "api", note |-> "Delivered via API callback"]
             ELSE [type |-> "manual", note |-> "Seller will complete delivery"]
    ELSE [type |-> "manual"]

\* The dispatch whose last branch hands over to the API callback, not to the
\* seller.
Delivery_ApiFallback(product, token) ==
    IF product # NoDoc
    THEN LET prod == serialize_doc(product)
         IN  IF Get(prod, "delivery_type", None) = "license_key"
             THEN [type |-> "license_key", key |-> Upper(token)]
             ELSE IF Get(prod, "delivery_type", None) = "download"
                     /\ Get(prod, "file_url", None) \notin {None, ""}
             THEN [type |-> "download", url |-> prod.file_url]
             ELSE [type |-> "api", note |-> "Delivered via API callback"]
    ELSE [type |-> "manual"]

\* Lines 268-283: the delivery for the product, given the generator's token.
Delivery(product, token) ==
    IF product # NoDoc
    THEN LET prod == serialize_doc(product)
         IN  IF Get(prod, "delivery_type", None) = "license_key"
             THEN [type |-> "license_key", key |-> Upper(token)]
             ELSE IF Get(prod, "delivery_type", None) = "download"
                     /\ Get(prod, "file_url", None) \notin {None, ""}
             THEN [type |-> "download", url |-> prod.file_url]
             ELSE IF Get(prod, "delivery_type", None) = "api"
             THEN [type |-> "api", note |-> "Delivered via API callback"]
             ELSE [type |-> "manual", note |-> "Seller will complete delivery"]
    ELSE [type |-> "manual"]

\* The fulfilment that issues a LicenseKey record for every product found.
WebhookFulfil_KeyForEveryProduct(w) ==
    LET l == webhook[w]
        token == token_urlsafe(Len(licensekey) + 1)
        delivery == Delivery(l.product, token)
        lic == [product_id |-> Get(serialize_doc(l.product), "id", ""),
                order_id |-> l.order_id, key |-> Upper(token),
                status |-> "active"]
    IN  /\ l.pc = "fulfil"
        /\ licensekey' = IF l.product # NoDoc THEN Insert(licensekey, lic) ELSE licensekey
        /\ webhook' = [webhook EXCEPT ![w] = ("pc" :> "update_order") @@ ("delivery" :> delivery) @@ l]
        /\ UNCHANGED <<digitalproduct, order, payment, reply>>

\* The fulfilment that hands out a key and stores no LicenseKey record.
WebhookFulfil_NoInsert(w) ==
    LET l == webhook[w]
        token == token_urlsafe(Len(licensekey) + 1)
        delivery == Delivery(l.product, token)
    IN  /\ l.pc = "fulfil"
        /\ webhook' = [webhook EXCEPT ![w] = ("pc" :> "update_order") @@ ("delivery" :> delivery) @@ l]
        /\ UNCHANGED <<digitalproduct, order, payment, licensekey, reply>>

\* Lines 268-283: fulfilment; a license_key product gets a LicenseKey record.
WebhookFulfil(w) ==
    LET l == webhook[w]
        token == token_urlsafe(Len(licensekey) + 1)
        delivery == Delivery(l.product, token)
        lic == [product_id |-> Get(serialize_doc(l.product), "id", ""),
                order_id |-> l.order_id, key |-> Get(delivery, "key", <<>>),
                status |-> "active"]
    IN  /\ l.pc = "fulfil"
        /\ licensekey' = IF delivery.type = "license_key" THEN Insert(licensekey, lic)
                         ELSE licensekey
        /\ webhook' = [webhook EXCEPT ![w] = ("pc" :> "update_order") @@ ("delivery" :> delivery) @@ l]
        /\ UNCHANGED <<digitalproduct, order, payment, reply>>

\* The update that pays a pending order and fails any other.
WebhookUpdateOrder_FailsUnlessPending(w) ==
    LET l == webhook[w]
        status == IF l.order_doc.status = "pending" THEN "paid" ELSE "failed"
    IN  /\ l.pc = "update_order"
        /\ order' = UpdateOne(order, l.order_id, [status |-> status, delivery |-> l.delivery])
        /\ reply' = [status_code |-> 200, ok |-> TRUE, order_id |-> l.order_id,
                     delivery |-> l.delivery]
        /\ webhook' = [webhook EXCEPT ![w] = Idle]
        /\ UNCHANGED <<digitalproduct, payment, licensekey>>

\* The update that also books the amount the event carries into the order.
WebhookUpdateOrder_SetsAmount(w) ==
    LET l == webhook[w]
    IN  /\ l.pc = "update_order"
        /\ order' = UpdateOne(order, l.order_id,
                              [status |-> "paid", delivery |-> l.delivery, amount |-> l.amount])
        /\ reply' = [status_code |-> 200, ok |-> TRUE, order_id |-> l.order_id,
                     delivery |-> l.delivery]
        /\ webhook' = [webhook EXCEPT ![w] = Idle]
        /\ UNCHANGED <<digitalproduct, payment, licensekey>>

\* The update that sets the status and forgets the delivery.
WebhookUpdateOrder_StatusOnly(w) ==
    LET l == webhook[w]
    IN  /\ l.pc = "update_order"
        /\ order' = UpdateOne(order, l.order_id, [status |-> "paid"])
        /\ reply' = [status_code |-> 200, ok |-> TRUE, order_id |-> l.order_id,
                     delivery |-> l.delivery]
        /\ webhook' = [webhook EXCEPT ![w] = Idle]
        /\ UNCHANGED <<digitalproduct, payment, licensekey>>

\* Lines 285-290: the order becomes paid, with the delivery.
WebhookUpdateOrder(w) ==
    LET l == webhook[w]
    IN  /\ l.pc = "update_order"
        /\ order' = UpdateOne(order, l.order_id, [status |-> "paid", delivery |-> l.delivery])
        /\ reply' = [status_code |-> 200, ok |-> TRUE, order_id |-> l.order_id,
                     delivery |-> l.delivery]
        /\ webhook' = [webhook EXCEPT ![w] = Idle]
        /\ UNCHANGED <<digitalproduct, payment, licensekey>>

(***************************************************************************)
(* Specifications.  OrderSpec places orders with every request of          *)
(* RequestBodies.  Spec places orders and delivers the events one at a     *)
(* time, to one worker; ConcSpec runs the handlers of all workers in       *)
(* parallel.                                                               *)
(***************************************************************************)
OrderNext == CreateOrder

OrderSpec == Init /\ [][OrderNext]_vars

PlaceOrder == \E raw \in SampleRequests : create_order(raw)

Receive == \E event \in Events : WebhookReceive(1, event)

FindProductStep == WebhookFindProduct(1)

RecordPayment == WebhookRecordPayment(1)

Fulfil == WebhookFulfil(1)

UpdateOrder == WebhookUpdateOrder(1)

Next ==
    \/ PlaceOrder
    \/ Receive
    \/ FindProductStep
    \/ RecordPayment
    \/ Fulfil
    \/ UpdateOrder

Spec == Init /\ [][Next]_vars

ConcReceive == \E w \in Workers, event \in Events : WebhookReceive(w, event)

ConcFindProduct == \E w \in Workers : WebhookFindProduct(w)

ConcRecordPayment == \E w \in Workers : WebhookRecordPayment(w)

ConcFulfil == \E w \in Workers : WebhookFulfil(w)

ConcUpdateOrder == \E w \in Workers : WebhookUpdateOrder(w)

ConcNext ==
    \/ PlaceOrder
    \/ ConcReceive
    \/ ConcFindProduct
    \/ ConcRecordPayment
    \/ ConcFulfil
    \/ ConcUpdateOrder

ConcSpec == Init /\ [][ConcNext]_vars

(***************************************************************************)
(* The catalog under the orders.  Products live in the store and sellers   *)
(* change them between an order and its payment: a price is edited, a      *)
(* record goes away.  CatalogSpec runs the order and payment flow over     *)
(* such a catalog, one event at a time.                                    *)
(***************************************************************************)
Prices == {10, 29}

\* A seller edits the price of product p.
EditPrice(p, price) ==
    /\ digitalproduct[p] # NoDoc
    /\ price # digitalproduct[p].price
    /\ digitalproduct' = [digitalproduct EXCEPT ![p].price = price]
    /\ UNCHANGED <<order, payment, licensekey, webhook, reply>>

\* The record of product p is removed from the store.
RemoveProduct(p) ==
    /\ digitalproduct[p] # NoDoc
    /\ digitalproduct' = [digitalproduct EXCEPT ![p] = NoDoc]
    /\ UNCHANGED <<order, payment, licensekey, webhook, reply>>

\* The requests CatalogSpec places orders with: the currency left out, and
\* sent as null.
CatalogRequests ==
    {[product_id |-> "p1", buyer_email |-> <<"bob", "Example.com">>, device_fp |-> "fp-1"],
     [product_id |-> "p2", buyer_email |-> <<"bob", "Example.com">>, device_fp |-> "fp-1",
      currency |-> None]}

\* The events CatalogSpec delivers: succeeded payments for stored orders, with
\* an amount that differs from every price, or a negative amount.
CatalogEvents ==
    [type : {"payment.succeeded"},
     data : [order_id : {ToString(i) : i \in 1..MaxOrders}, amount : {5, -5}]]

CatalogPlaceOrder == \E raw \in CatalogRequests : create_order(raw)

\* The seller reprices the seeded product.
SellerEdit == \E price \in Prices : EditPrice("p1", price)

ProductRemoved == \E p \in ProductIds : RemoveProduct(p)

CatalogReceive == \E event \in CatalogEvents : WebhookReceive(1, event)

CatalogNext ==
    \/ CatalogPlaceOrder
    \/ SellerEdit
    \/ ProductRemoved
    \/ CatalogReceive
    \/ FindProductStep
    \/ RecordPayment
    \/ Fulfil
    \/ UpdateOrder

CatalogSpec == Init /\ [][CatalogNext]_vars

(***************************************************************************)
(* Storage failures.  No storage call of payment_webhook is inside a try:  *)
(* one that raises ends the call with a 500 and what was written before it *)
(* stays written.  FaultSpec is Spec with such failures.                   *)
(***************************************************************************)
\* The handler is about to call the store: the product lookup, the Payment
\* insert, the LicenseKey insert of a license_key product, the order update.
AtStorageCall(l) ==
    \/ l.pc \in {"find_product", "record_payment", "update_order"}
    \/ /\ l.pc = "fulfil"
       /\ Get(serialize_doc(l.product), "delivery_type", None) = "license_key"

\* The handler that catches the failure and carries on with its next step.
WebhookStorageFails_Swallowed(w) ==
    LET l == webhook[w]
        delivery == Delivery(l.product, token_urlsafe(Len(licensekey) + 1))
    IN  /\ l.pc # "idle"
        /\ AtStorageCall(l)
        /\ webhook' = [webhook EXCEPT ![w] =
                CASE l.pc = "find_product" ->
                        ("pc" :> "record_payment") @@ ("product" :> NoDoc) @@ l
                  [] l.pc = "record_payment" -> ("pc" :> "fulfil") @@ l
                  [] l.pc = "fulfil" ->
                        ("pc" :> "update_order") @@ ("delivery" :> delivery) @@ l
                  [] OTHER -> Idle]
        /\ reply' = IF l.pc = "update_order"
                    THEN [status_code |-> 200, ok |-> TRUE, order_id |-> l.order_id,
                          delivery |-> l.delivery]
                    ELSE reply
        /\ UNCHANGED <<digitalproduct, order, payment, licensekey>>

\* Lines 251-288: the storage call the handler is at raises; nothing catches
\* it, the call ends with a 500 and writes nothing more.
WebhookStorageFails(w) ==
    LET l == webhook[w]
    IN  /\ l.pc # "idle"
        /\ AtStorageCall(l)
        /\ webhook' = [webhook EXCEPT ![w] = Idle]
        /\ reply' = InternalServerError
        /\ UNCHANGED <<digitalproduct, order, payment, licensekey>>

\* The events FaultSpec delivers: succeeded payments for stored orders.
FaultEvents ==
    [type : {"payment.succeeded"}, data : [order_id : {ToString(i) : i \in 1..MaxOrders}]]

FaultReceive == \E event \in FaultEvents : WebhookReceive(1, event)

StorageFails == WebhookStorageFails(1)

FaultNext ==
    \/ PlaceOrder
    \/ FaultReceive
    \/ FindProductStep
    \/ RecordPayment
    \/ Fulfil
    \/ UpdateOrder
    \/ StorageFails

FaultSpec == Init /\ [][FaultNext]_vars

(***************************************************************************)
(* RaceSpec: handlers of all workers in parallel, for succeeded payments   *)
(* of stored orders only.                                                  *)
(***************************************************************************)
RaceReceive == \E w \in Workers, event \in FaultEvents : WebhookReceive(w, event)

RaceNext ==
    \/ CatalogPlaceOrder
    \/ RaceReceive
    \/ ConcFindProduct
    \/ ConcRecordPayment
    \/ ConcFulfil
    \/ ConcUpdateOrder

RaceSpec == Init /\ [][RaceNext]_vars

(***************************************************************************)
(* Claims.                                                                 *)
(***************************************************************************)
Paid(i) == order[i].status = "paid"

\* C1: payment confirmation is idempotent at the order level: a further
\* payment.succeeded event for an order that is already paid leaves the
\* order's delivery exactly as the first confirmation set it.
C1_PaidDeliveryKept ==
    [][\A i \in DOMAIN order : Paid(i) => order'[i].delivery = order[i].delivery]_vars

\* C2: no blocked order is ever payable: an order with status failed keeps
\* its status and its delivery whatever payment event refers to it.
C2_FailedOrderUntouched ==
    [][\A i \in DOMAIN order :
          order[i].status = "failed" =>
              /\ order'[i].status = "failed"
              /\ order'[i].delivery = order[i].delivery]_vars

\* C5: in every reachable state a paid order has a delivery, and a pending
\* or failed order has none.
C5_DeliveryIffPaid ==
    \A i \in DOMAIN order :
        /\ Paid(i) => order[i].delivery # NoDoc
        /\ order[i].status \in {"pending", "failed"} => order[i].delivery = NoDoc

\* C5 witness: one order has been paid and delivered while another is still
\* pending.
C5_Witness ==
    \E i, j \in DOMAIN order :
        /\ Paid(i) /\ order[i].delivery # NoDoc
        /\ order[j].status = "pending" /\ order[j].delivery = NoDoc

\* A handler step of worker w.
HandlerStep(w) ==
    WebhookFindProduct(w) \/ WebhookRecordPayment(w) \/ WebhookFulfil(w) \/ WebhookUpdateOrder(w)

\* The call of worker w ends with this step.
CallEnds(w) == webhook[w].pc # "idle" /\ webhook'[w].pc = "idle"

\* The call that ends has paid the order: the order is paid, its delivery is
\* the one returned, and one Payment record was added since the call began.
PaidAndAnswered(w) ==
    LET l == webhook[w]
        after == FindOne(order', l.order_id)
    IN  /\ reply'.status_code = 200
        /\ reply'.order_id = l.order_id
        /\ after.status = "paid"
        /\ after.delivery # NoDoc
        /\ after.delivery = reply'.delivery
        /\ Len(payment') = l.seen_payments + 1

\* The event's amount and processor are ones the Payment schema accepts.
PaymentDataValid(l) ==
    l.amount >= 0 /\ l.processor \in {"card", "paypal", "crypto", "bank"}

\* C3 as stated: every payment.succeeded event for an existing pending order
\* runs to completion; afterwards the order is paid with the delivery that was
\* returned and there is exactly one more Payment record.
C3_PendingOrderPaid ==
    /\ [](\A w \in Workers : webhook[w].pc # "idle" => ENABLED HandlerStep(w))
    /\ [][\A w \in Workers :
            (CallEnds(w) /\ webhook[w].order_doc.status = "pending") => PaidAndAnswered(w)]_vars

\* C3 amended: the same, for events whose amount is absent or non-negative and
\* whose processor is absent or one of card, paypal, crypto, bank.
C3_ValidPaymentPendingOrderPaid ==
    /\ [](\A w \in Workers : webhook[w].pc # "idle" => ENABLED HandlerStep(w))
    /\ [][\A w \in Workers :
            (CallEnds(w) /\ webhook[w].order_doc.status = "pending"
                /\ PaymentDataValid(webhook[w]))
            => PaidAndAnswered(w)]_vars

\* C3 witness: a call for a pending order has just ended; the order is paid
\* and carries the delivery of the answer.
C3_Witness ==
    /\ reply.status_code = 200 /\ "ok" \in DOMAIN reply
    /\ FindOne(order, reply.order_id).status = "paid"
    /\ FindOne(order, reply.order_id).delivery = reply.delivery
    /\ Len(payment) = 1

\* C4: after any sequence or interleaving of payment.succeeded events there
\* is at most one active LicenseKey record for each (product, order) pair.
C4_OneActiveKeyPerOrder ==
    \A a, b \in DOMAIN licensekey :
        (/\ licensekey[a].product_id = licensekey[b].product_id
         /\ licensekey[a].order_id = licensekey[b].order_id
         /\ licensekey[a].status = "active"
         /\ licensekey[b].status = "active") => a = b

\* The request names a product that is stored.
ProductExists(raw) ==
    raw.product_id \in ProductIds /\ digitalproduct[raw.product_id] # NoDoc

\* The step added exactly one Order record and changed no other.
OneOrderAdded == Len(order') = Len(order) + 1 /\ SubSeq(order', 1, Len(order)) = order

\* The Order record the step added agrees with the answer: no delivery,
\* failed exactly for block, pending for allow and review.
AddedOrderFollowsAction ==
    LET o == order'[Len(order')]
    IN  /\ o.delivery = NoDoc
        /\ reply'.status_code = 200
        /\ o.status = "failed" <=> reply'.action = "block"
        /\ o.status = "pending" <=> reply'.action \in {"allow", "review"}
        /\ reply'.status = o.status
        /\ reply'.order_id = ToString(Len(order'))

\* C6 as stated: every createOrder call on an existing product persists
\* exactly one Order record, with no delivery, failed iff the action is block
\* and pending otherwise, and returns the persisted status.
C6_EveryCallPersistsOneOrder ==
    [][\A raw \in RequestBodies :
          (ProductExists(raw) /\ create_order(raw))
          => (OneOrderAdded /\ AddedOrderFollowsAction)]_vars

\* C6 amended: the same, for calls whose buyer email is a well-formed address.
C6_ValidEmailCallPersistsOneOrder ==
    [][\A raw \in RequestBodies :
          (ProductExists(raw) /\ IsEmailStr(raw.buyer_email) /\ create_order(raw))
          => (OneOrderAdded /\ AddedOrderFollowsAction)]_vars

\* C6 witness: the last call was blocked and its order was stored as failed.
C6_Witness ==
    /\ reply.status_code = 200 /\ "action" \in DOMAIN reply
    /\ reply.action = "block"
    /\ order[Len(order)].status = "failed" /\ order[Len(order)].delivery = NoDoc

\* The score in tenths as the exact sum of the rule increments, clamped.
ExactTenths(email, currency, device_fp) ==
    LET sum == 1 + (IF DomainOf(email) \in high_risk_domains THEN 6 ELSE 0)
                 + (IF currency \notin accepted_currencies THEN 1 ELSE 0)
                 + (IF device_fp \in {None, ""} THEN 1 ELSE 0)
    IN  IF sum > 10 THEN 10 ELSE sum

\* The action of a score in tenths by the half-open thresholds.
ExactAction(tenths) ==
    IF tenths < 6 THEN "allow" ELSE IF tenths < 8 THEN "review" ELSE "block"

\* C7: the action follows the exact sum of the 0.10-step increments by the
\* thresholds < 0.60 allow, < 0.80 review, otherwise block; a denylisted
\* domain with one further signal sums to 0.80, is blocked, and its order is
\* created failed.
C7_ExactSumDecidesAction ==
    [][\A raw \in RequestBodies :
          (Len(order') = Len(order) + 1 /\ create_order(raw))
          => LET o == order'[Len(order')]
                 action == ExactAction(ExactTenths(o.buyer_email, o.currency,
                                                   Get(raw, "device_fp", None)))
             IN  /\ reply'.action = action
                 /\ o.status = IF action = "block" THEN "failed" ELSE "pending"]_vars

\* C8: an event whose type is not payment.succeeded is answered with success
\* and leaves every Order, Payment and LicenseKey record unchanged, whatever
\* its data.
C8_OtherEventTypesIgnored ==
    [][\A w \in Workers, event \in Events :
          (event.type # "payment.succeeded" /\ WebhookReceive(w, event))
          => /\ reply' = [status_code |-> 200, received |-> TRUE]
             /\ UNCHANGED <<order, payment, licensekey, webhook>>]_vars

\* C8 witness: an ignored event has just been acknowledged while orders and
\* payments are stored.
C8_Witness ==
    /\ reply = [status_code |-> 200, received |-> TRUE]
    /\ Len(order) > 0 /\ Len(payment) > 0

\* No stored order has this id.
NoSuchOrder(id) == ~ \E i \in DOMAIN order : ToString(i) = id

\* C9: a payment.succeeded event rejected with BadRequest (no order_id) or
\* NotFound (no order of that id) leaves the Order, Payment and LicenseKey
\* collections unchanged and starts no fulfilment.
C9_RejectedEventChangesNothing ==
    [][\A w \in Workers, event \in Events :
          (/\ event.type = "payment.succeeded"
           /\ WebhookReceive(w, event)
           /\ \/ "order_id" \notin DOMAIN event.data
              \/ (event.data.order_id # "not-an-id" /\ NoSuchOrder(event.data.order_id)))
          => /\ reply' = IF "order_id" \notin DOMAIN event.data
                         THEN HTTPException(400, "order_id missing")
                         ELSE HTTPException(404, "Order not found")
             /\ UNCHANGED <<order, payment, licensekey, webhook>>]_vars

\* C9 witness: an event for an unknown order has just been rejected while
\* orders and payments are stored.
C9_Witness ==
    /\ reply = HTTPException(404, "Order not found")
    /\ Len(order) > 0 /\ Len(payment) > 0

\* C10: createOrder for a product id that matches no product fails with
\* NotFound, and the orders are the same before and after the call.
C10_UnknownProductNotFound ==
    [][\A raw \in RequestBodies :
          (~ProductExists(raw) /\ create_order(raw))
          => (reply' = HTTPException(404, "Product not found") /\ order' = order)]_vars

\* C10 witness: a call for an unknown product has just been refused while an
\* earlier order is stored.
C10_Witness ==
    reply = HTTPException(404, "Product not found") /\ Len(order) > 0

\* The delivery_type of the product a handler found, None when it found none.
DeliveryTypeOf(product) == Get(serialize_doc(product), "delivery_type", None)

\* The call that ends has succeeded and paid its order; for an absent product
\* or a delivery_type outside license_key, download, api the delivery is manual.
PaidWithFallback(w) ==
    LET l == webhook[w]
        after == FindOne(order', l.order_id)
    IN  /\ reply'.status_code = 200
        /\ "ok" \in DOMAIN reply'
        /\ after.status = "paid"
        /\ after.delivery = reply'.delivery
        /\ DeliveryTypeOf(l.product) \notin {"license_key", "download", "api"}
              => after.delivery.type = "manual"

\* C11 as stated: fulfilment never fails a payment confirmation: every
\* payment.succeeded event on an existing order, whatever the product's
\* delivery_type and also when the product record is gone, runs to a
\* successful end and the order becomes paid; for an absent product or a
\* delivery_type outside license_key, download, api the delivery is manual.
C11_EveryConfirmationSucceeds ==
    /\ [](\A w \in Workers : webhook[w].pc # "idle" => ENABLED HandlerStep(w))
    /\ [][\A w \in Workers : CallEnds(w) => PaidWithFallback(w)]_vars

\* C11 amended: the same, for events whose amount and processor the Payment
\* schema accepts.
C11_ValidConfirmationSucceeds ==
    /\ [](\A w \in Workers : webhook[w].pc # "idle" => ENABLED HandlerStep(w))
    /\ [][\A w \in Workers :
            (CallEnds(w) /\ PaymentDataValid(webhook[w])) => PaidWithFallback(w)]_vars

\* C11 witness: an order has been paid after its product record was removed,
\* and carries the bare manual delivery of a missing product.
C11_Witness ==
    \E i \in DOMAIN order :
        /\ Paid(i)
        /\ order[i].delivery = [type |-> "manual"]
        /\ digitalproduct[order[i].product_id] = NoDoc
        /\ reply.status_code = 200 /\ "ok" \in DOMAIN reply

\* The product is a download with no file URL configured.
DownloadWithoutUrl(product) ==
    /\ DeliveryTypeOf(product) = "download"
    /\ Get(serialize_doc(product), "file_url", None) \in {None, ""}

\* The call that ends has succeeded, and its order is paid with a delivery of
\* this type that carries no url.
PaidWithType(w, type) ==
    LET l == webhook[w]
        after == FindOne(order', l.order_id)
    IN  /\ reply'.status_code = 200
        /\ "ok" \in DOMAIN reply'
        /\ after.status = "paid"
        /\ after.delivery = reply'.delivery
        /\ after.delivery.type = type
        /\ "url" \notin DOMAIN after.delivery

\* C12 as stated: for a download product with no file URL, a payment.succeeded
\* event (with a payload the Payment schema accepts) on its order succeeds and
\* the order's delivery has type download, with no url.
C12_DownloadWithoutUrlDegrades ==
    [][\A w \in Workers :
          (CallEnds(w) /\ PaymentDataValid(webhook[w]) /\ DownloadWithoutUrl(webhook[w].product))
          => PaidWithType(w, "download")]_vars

\* C12 amended: such an event succeeds and the order's delivery has type
\* manual, with the note of the fallback and no url.
C12_DownloadWithoutUrlIsManual ==
    [][\A w \in Workers :
          (CallEnds(w) /\ PaymentDataValid(webhook[w]) /\ DownloadWithoutUrl(webhook[w].product))
          => /\ PaidWithType(w, "manual")
             /\ reply'.delivery = [type |-> "manual", note |-> "Seller will complete delivery"]]_vars

\* C12 witness: the order of a download product with no file URL has been paid
\* and carries the manual delivery.
C12_Witness ==
    \E i \in DOMAIN order :
        /\ Paid(i)
        /\ DownloadWithoutUrl(FindProduct(order[i].product_id))
        /\ order[i].delivery.type = "manual"
        /\ reply.status_code = 200 /\ "ok" \in DOMAIN reply

\* The step added exactly one LicenseKey record and changed no other.
OneKeyAdded ==
    Len(licensekey') = Len(licensekey) + 1 /\ SubSeq(licensekey', 1, Len(licensekey)) = licensekey

\* The step is the fulfilment of worker w for a license_key product, and the
\* one record it added is active, references the event's order and that
\* order's product, and holds the key of the delivery.
FulfilIssuesKey(w) ==
    LET l == webhook[w]
        lic == licensekey'[Len(licensekey')]
    IN  /\ WebhookFulfil(w)
        /\ DeliveryTypeOf(l.product) = "license_key"
        /\ OneKeyAdded
        /\ lic.status = "active"
        /\ lic.order_id = l.order_id
        /\ lic.product_id = l.order_doc.product_id
        /\ webhook'[w].delivery = [type |-> "license_key", key |-> lic.key]

\* LicenseKey records change only by a fulfilment for a license_key product,
\* which adds one; every other step (createOrder, an ignored or rejected
\* event, any other step of a handler, a fulfilment for another delivery_type)
\* leaves them as they are.
OnlyFulfilIssuesKeys ==
    /\ licensekey' # licensekey => \E w \in Workers : FulfilIssuesKey(w)
    /\ \A w \in Workers :
          (WebhookFulfil(w) /\ DeliveryTypeOf(webhook[w].product) = "license_key")
          => FulfilIssuesKey(w)

\* The call that ends returns a license_key delivery, and the one LicenseKey
\* record added since the call began is active, references the event's order
\* and its product, and holds the returned key.
ReturnsIssuedKey(w) ==
    LET l == webhook[w]
        lic == licensekey'[Len(licensekey')]
    IN  /\ reply'.status_code = 200
        /\ "ok" \in DOMAIN reply'
        /\ reply'.order_id = l.order_id
        /\ Len(licensekey') = l.seen_keys + 1
        /\ lic.status = "active"
        /\ lic.order_id = l.order_id
        /\ lic.product_id = l.order_doc.product_id
        /\ reply'.delivery = [type |-> "license_key", key |-> lic.key]

\* C13 as stated: a LicenseKey record is created only by handling a
\* payment.succeeded event for a license_key product; each such handling
\* creates exactly one, active, for the event's order and that order's
\* product, with the key of the returned delivery; every other operation
\* creates none.
C13_KeyPerLicenseKeyEvent ==
    [][/\ OnlyFulfilIssuesKeys
       /\ \A w \in Workers :
             (CallEnds(w) /\ DeliveryTypeOf(webhook[w].product) = "license_key")
             => ReturnsIssuedKey(w)]_vars

\* C13 amended: the same, where each such handling is of an event whose
\* amount and processor the Payment schema accepts.
C13_KeyPerAcceptedLicenseKeyEvent ==
    [][/\ OnlyFulfilIssuesKeys
       /\ \A w \in Workers :
             (CallEnds(w) /\ PaymentDataValid(webhook[w])
                 /\ DeliveryTypeOf(webhook[w].product) = "license_key")
             => ReturnsIssuedKey(w)]_vars

\* C13 witness: the last call issued and returned the only LicenseKey record,
\* while another order was paid with a delivery that is no license key.
C13_Witness ==
    /\ reply.status_code = 200 /\ "ok" \in DOMAIN reply
    /\ reply.delivery.type = "license_key"
    /\ Len(licensekey) = 1
    /\ licensekey[1].key = reply.delivery.key
    /\ licensekey[1].order_id = reply.order_id
    /\ \E j \in DOMAIN order : Paid(j) /\ order[j].delivery.type # "license_key"

\* The currency the caller supplies, or the product's when the caller supplies
\* none (the field is left out or null).
ResolvedCurrency(raw) ==
    IF Get(raw, "currency", None) # None THEN raw.currency
    ELSE digitalproduct[raw.product_id].currency

\* C14: the currency of the order createOrder creates is the caller-supplied
\* currency when the caller supplies one and the product's currency when the
\* caller supplies none, and the risk signal uses that same currency.
C14_CurrencyFromCallerOrProduct ==
    [][\A raw \in RequestBodies :
          (Len(order') = Len(order) + 1 /\ create_order(raw))
          => /\ order'[Len(order')].currency = ResolvedCurrency(raw)
             /\ reply'.risk_score =
                    risk_score_from_request(
                        [email |-> raw.buyer_email, currency |-> ResolvedCurrency(raw),
                         device_fp |-> Or(Get(raw, "device_fp", None), "")])]_vars

\* The fields of an order that are set at its creation.
Snapshot(o) ==
    [amount |-> o.amount, currency |-> o.currency, buyer_email |-> o.buyer_email,
     product_id |-> o.product_id, seller_id |-> o.seller_id]

\* C15: an order's amount is the product's price at the moment createOrder
\* ran, and no later step (a price edit, the removal of the product, a
\* payment event with whatever amount) changes the order's amount, currency,
\* buyer email, product or seller reference.
C15_AmountSnapshotKept ==
    [][/\ Len(order') >= Len(order)
       /\ \A i \in DOMAIN order : Snapshot(order'[i]) = Snapshot(order[i])
       /\ \A raw \in CatalogRequests :
             (Len(order') = Len(order) + 1 /\ create_order(raw))
             => /\ order'[Len(order')].amount = digitalproduct[raw.product_id].price
                /\ order'[Len(order')].product_id = raw.product_id
                /\ order'[Len(order')].seller_id = digitalproduct[raw.product_id].seller_id
                /\ order'[Len(order')].buyer_email = raw.buyer_email]_vars

\* C15 witness: an order has been paid by an event whose amount is not the
\* order's, after its product was repriced: the order still has the old price.
C15_Witness ==
    \E i \in DOMAIN order :
        /\ Paid(i)
        /\ digitalproduct[order[i].product_id] # NoDoc
        /\ digitalproduct[order[i].product_id].price # order[i].amount
        /\ \E k \in DOMAIN payment :
              payment[k].order_id = ToString(i) /\ payment[k].amount # order[i].amount

\* Signal bundles for the Risk Scorer.
Signals == [email : Emails, currency : {"USD", "XBT"}, device_fp : {"", "fp-1"}]

\* All three rules apply: a denylisted domain, a currency outside the
\* accepted set, an empty device fingerprint.
AllSignals(signal) ==
    /\ DomainOf(signal.email) \in high_risk_domains
    /\ signal.currency \notin accepted_currencies
    /\ signal.device_fp = ""

\* The signal bundle of the request whose order was stored with this currency.
SignalOf(raw, currency) ==
    [email |-> raw.buyer_email, currency |-> currency,
     device_fp |-> Or(Get(raw, "device_fp", None), "")]

\* 0.8999999999999999, the double below 0.9.
F_0_9_below == <<241591910, 107374176>>

\* The scorer gives every bundle with all three signals this score, and the
\* action of the score is block.
ScorerGives(score) ==
    \A signal \in Signals :
        AllSignals(signal) =>
            /\ risk_score_from_request(signal) = score
            /\ ActionOf(risk_score_from_request(signal)) = "block"

\* The createOrder call of this step, for a request with all three signals,
\* answers with this score and block, and stores the order failed.
CreateOrderAnswers(score) ==
    \A raw \in RequestBodies :
        (/\ Len(order') = Len(order) + 1
         /\ AllSignals(SignalOf(raw, order'[Len(order')].currency))
         /\ create_order(raw))
        => /\ reply'.risk_score = score
           /\ reply'.action = "block"
           /\ order'[Len(order')].status = "failed"

\* C16 as stated: for a bundle with a denylisted email domain, an unaccepted
\* currency and an empty device fingerprint the Risk Scorer returns 1.0
\* (clamped), and the action is block.
C16_AllSignalsScoreOne == [][CreateOrderAnswers(F_1_0)]_vars

\* C16 amended: for such a bundle the Risk Scorer returns the double sum
\* 0.1 + 0.6 + 0.1 + 0.1 = 0.8999999999999999, below the clamp at 1.0, and the
\* action is block.
C16_AllSignalsScoreBelowOne ==
    /\ [](FLess(F_0_9_below, F_1_0) /\ ScorerGives(F_0_9_below))
    /\ [][CreateOrderAnswers(F_0_9_below)]_vars

\* C16 witness: createOrder has just scored a request with all three signals
\* and stored its order as failed.
C16_Witness ==
    /\ reply.status_code = 200 /\ "action" \in DOMAIN reply
    /\ reply.risk_score = F_0_9_below
    /\ reply.action = "block"
    /\ AllSignals([email |-> order[Len(order)].buyer_email,
                   currency |-> order[Len(order)].currency, device_fp |-> ""])
    /\ order[Len(order)].status = "failed"

\* The step keeps every Payment record as it is: it adds records at the end
\* or changes nothing.
PaymentsKept ==
    Len(payment') >= Len(payment) /\ SubSeq(payment', 1, Len(payment)) = payment

\* The call that ends has added exactly one Payment record since it began, a
\* succeeded one for the event's order.
OnePaymentRecorded(w) ==
    LET l == webhook[w]
    IN  /\ Len(payment') = l.seen_payments + 1
        /\ payment'[Len(payment')].status = "succeeded"
        /\ payment'[Len(payment')].order_id = l.order_id

\* C17 as stated: the Payment collection is an append-only ledger: every
\* payment.succeeded event for an existing order, whatever the order's status,
\* appends exactly one succeeded Payment record for that order, and no step
\* changes or removes a Payment record.
C17_EveryEventAppendsPayment ==
    [][/\ PaymentsKept
       /\ \A w \in Workers : CallEnds(w) => OnePaymentRecorded(w)]_vars

\* C17 amended: the same, for events whose amount and processor the Payment
\* schema accepts.
C17_ValidEventAppendsPayment ==
    [][/\ PaymentsKept
       /\ \A w \in Workers :
             (CallEnds(w) /\ PaymentDataValid(webhook[w])) => OnePaymentRecorded(w)]_vars

\* C17 witness: an order that was created failed has two succeeded Payment
\* records, one for each event that referred to it.
C17_Witness ==
    \E i \in DOMAIN order :
        /\ order[i].currency = "XBT"
        /\ Len(payment) = 2
        /\ \A k \in DOMAIN payment :
              payment[k].order_id = ToString(i) /\ payment[k].status = "succeeded"
        /\ webhook[1].pc = "idle"

\* C18: paid is terminal: an order that is paid is paid after every step, no
\* step sets the status of an order to refunded, pending or failed, no order
\* is removed, and a new order is pending or failed.
C18_PaidIsTerminal ==
    [][/\ Len(order') >= Len(order)
       /\ \A i \in DOMAIN order :
             /\ Paid(i) => order'[i].status = "paid"
             /\ order'[i].status # order[i].status => order'[i].status = "paid"
       /\ \A i \in DOMAIN order' \ DOMAIN order :
             order'[i].status \in {"pending", "failed"}]_vars

\* C18 witness: a further payment event for a paid order has been handled to
\* its end, and the order is paid.
C18_Witness ==
    \E i \in DOMAIN order :
        /\ Paid(i)
        /\ Cardinality({k \in DOMAIN payment : payment[k].order_id = ToString(i)}) = 2
        /\ reply.status_code = 200 /\ "ok" \in DOMAIN reply
        /\ reply.order_id = ToString(i)
        /\ webhook[1].pc = "idle"

\* A succeeded Payment record references order i.
HasSucceededPayment(i) ==
    \E k \in DOMAIN payment :
        payment[k].order_id = ToString(i) /\ payment[k].status = "succeeded"

\* C19: in every reachable state, also after a storage call failed part-way
\* through a handler, every paid order has a succeeded Payment record that
\* references it.
C19_PaidOrderHasPayment ==
    \A i \in DOMAIN order : Paid(i) => HasSucceededPayment(i)

\* C19 witness (the converse fails): a handler recorded its Payment and its
\* LicenseKey and then failed at the order update, so an order that is still
\* pending has both, beside a paid order with its Payment.
C19_Witness ==
    /\ reply = InternalServerError
    /\ webhook[1].pc = "idle"
    /\ \E i, j \in DOMAIN order :
          /\ order[i].status = "pending" /\ order[i].delivery = NoDoc
          /\ HasSucceededPayment(i)
          /\ \E k \in DOMAIN licensekey :
                licensekey[k].order_id = ToString(i) /\ licensekey[k].status = "active"
          /\ Paid(j) /\ HasSucceededPayment(j)

\* The key of order i's delivery is the key of an active LicenseKey record
\* that references the order and its product.
DeliveredKeyPersisted(i) ==
    \E k \in DOMAIN licensekey :
        /\ licensekey[k].key = order[i].delivery.key
        /\ licensekey[k].status = "active"
        /\ licensekey[k].order_id = ToString(i)
        /\ licensekey[k].product_id = order[i].product_id

\* C20: under every interleaving of payment.succeeded handlers, an order
\* whose delivery has type license_key points at the key of an active
\* LicenseKey record of that order and its product.
C20_DeliveredKeyIsPersisted ==
    \A i \in DOMAIN order :
        (order[i].delivery # NoDoc /\ order[i].delivery.type = "license_key")
        => DeliveredKeyPersisted(i)

\* C20 witness: two handlers for one order overlapped: each stored a key, the
\* one that stored first updated the order last, and the order points at the
\* first key.
C20_Witness ==
    \E i \in DOMAIN order :
        /\ Len(licensekey) = 2
        /\ \A k \in DOMAIN licensekey : licensekey[k].order_id = ToString(i)
        /\ order[i].delivery # NoDoc
        /\ order[i].delivery.type = "license_key"
        /\ order[i].delivery.key = licensekey[1].key
        /\ \A w \in Workers : webhook[w].pc = "idle"
====
